---- MODULE Spec2Model ----
(***************************************************************************)
(* Model of the Gridly data-table JSON importer                            *)
(* (FGridlyDataTableImporterJSON) and of the data-table exporter           *)
(* (FGridlyExporter::ConvertToJson).                                       *)
(*                                                                         *)
(* A data table is a row map (key -> record) over a record type            *)
(* (RowStruct).  The importer walks a parsed JSON document and fills       *)
(* records field by field, logging problems; the exporter walks the rows   *)
(* of a page and writes one row object per row.                            *)
(***************************************************************************)
EXTENDS Integers, Sequences, FiniteSets, TLC

VARIABLES
    RowStruct,                \* UDataTable::RowStruct: name of the record type, "None" when missing
    bAllowDuplicateRows,      \* UDataTable::AllowDuplicateRowsOnImport()
    bIgnoreExtraFields,       \* UDataTable::bIgnoreExtraFields
    bIgnoreMissingFields,     \* UDataTable::bIgnoreMissingFields
    ImportKeyField,           \* UDataTable::ImportKeyField
    bArbitraryStruct,         \* build switch HS_GRIDLY_ALLOW_ARBITARY_STRUCT_IN_TABLE
    RowMap,                   \* UDataTable::RowMap, in key-enumeration order
    JSONData,                 \* FGridlyDataTableImporterJSON::JSONData
    ImportProblems,           \* FGridlyDataTableImporterJSON::ImportProblems
    pc,                       \* position of the importer: "constructed" or "read"
    PriorRowMap,              \* the row map as it was when the importer was constructed
    ReadTableResult,          \* what ReadTable returned ("none" before the call)
    Exported                  \* the last ConvertToJson call: arguments, OutJsonString, result

vars == <<RowStruct, bAllowDuplicateRows, bIgnoreExtraFields, bIgnoreMissingFields,
          ImportKeyField, bArbitraryStruct, RowMap, JSONData, ImportProblems, pc,
          PriorRowMap, ReadTableResult, Exported>>

(***************************************************************************)
(* Bounds of the model.                                                    *)
(***************************************************************************)
MaxRows == 3          \* longest document (top-level array) drawn
IntBits == 3          \* width of the integer fields of the modelled record types
SizeBits == 4         \* width of size_t in the pagination arithmetic
MaxPage == 1          \* largest ordinary page size (MaxSize) drawn
MaxEntries == 3       \* most entries of a container value drawn

(***************************************************************************)
(* Small helpers.                                                          *)
(***************************************************************************)
Min(a, b) == IF a < b THEN a ELSE b

Pow2(n) == 2 ^ n

Range(s) == {s[i] : i \in 1..Len(s)}

\* s without its i-th element
RemoveAt(s, i) == SubSeq(s, 1, i - 1) \o SubSeq(s, i + 1, Len(s))

(***************************************************************************)
(* JSON values (FJsonValue): a tag and a payload.  An object keeps its      *)
(* pairs in document order.                                                *)
(***************************************************************************)
JNull == [type |-> "Null"]
JBool(b) == [type |-> "Boolean", b |-> b]
JNum(n) == [type |-> "Number", n |-> n]
JStr(s) == [type |-> "String", s |-> s]
JArr(a) == [type |-> "Array", a |-> a]
JObj(o) == [type |-> "Object", o |-> o]

\* GridlyDataTableJSONUtils::JSONTypeToString
JSONTypeToString(InType) ==
    IF InType \in {"None", "Null", "String", "Number", "Boolean", "Array", "Object"}
    THEN InType
    ELSE "Unknown"

\* FJsonObject::Values as a sequence of <<key, value>>
HasField(o, k) == \E i \in 1..Len(o) : o[i][1] = k
FieldOf(o, k) == o[CHOOSE i \in 1..Len(o) : o[i][1] = k][2]

\* FJsonObject::GetStringField: the string, or the empty string when the
\* field is missing or is no string
GetStringField(o, k) ==
    IF HasField(o, k) /\ FieldOf(o, k).type = "String" THEN FieldOf(o, k).s ELSE ""

\* The typed accessors of a JSON value, as the importer uses them
TryGetString(v) == v.type = "String"
TryGetNumber(v) == v.type = "Number"
TryGetBool(v) == v.type = "Boolean"
TryGetArray(v) == v.type = "Array"
TryGetObject(v) == v.type = "Object"

(***************************************************************************)
(* Record types (UScriptStruct) and their properties (FProperty).          *)
(* kind is the property class the importer and the exporter dispatch on;   *)
(* dim is ArrayDim; inner is the kind of the elements of an array or set   *)
(* and of the values of a map; key is the kind of a map's keys; struct is  *)
(* the record type of a struct property or of struct elements.             *)
(***************************************************************************)
Prop(name, kind) ==
    [name |-> name, kind |-> kind, dim |-> 1, inner |-> "None", key |-> "None",
     struct |-> "None", aliases |-> <<>>, optional |-> FALSE]

ArrayOf(name, inner) == [Prop(name, "Array") EXCEPT !.inner = inner]
SetOf(name, inner) == [Prop(name, "Set") EXCEPT !.inner = inner]
MapOf(name, key, inner) == [Prop(name, "Map") EXCEPT !.key = key, !.inner = inner]
StructOf(name, struct) == [Prop(name, "Struct") EXCEPT !.struct = struct]
FixedOf(name, kind, dim) == [Prop(name, kind) EXCEPT !.dim = dim]
OptionalOf(name, kind) == [Prop(name, kind) EXCEPT !.optional = TRUE]
AliasedOf(name, kind, aliases) == [Prop(name, kind) EXCEPT !.aliases = aliases]

\* TFieldIterator<FProperty>(Struct): the properties in declaration order
StructFields(struct) ==
    CASE struct = "Scalars" ->
            <<Prop("B", "Bool"), Prop("I", "Int"), Prop("S", "Str")>>
      [] struct = "PathRow" ->
            <<Prop("I", "Int"), Prop("_path", "Str"), Prop("S", "Str")>>
      [] struct = "Containers" ->
            <<Prop("Y", "Int"),
              ArrayOf("A", "Int"), ArrayOf("N", "Array"),
              SetOf("T", "Int"), SetOf("U", "Map"),
              MapOf("M", "Int", "Int"), MapOf("P", "Int", "Set"),
              FixedOf("F", "Int", 2), FixedOf("G", "Array", 2),
              StructOf("W", "Fixed"),
              [ArrayOf("K", "Struct") EXCEPT !.struct = "Inner"],
              Prop("Z", "Int")>>
      [] struct = "Fixed" ->
            <<FixedOf("F2", "Int", 2), Prop("X", "Int")>>
      [] struct = "Inner" ->
            <<Prop("X", "Int")>>
      [] struct = "Tagged" ->
            <<Prop("B", "Bool"), OptionalOf("I", "Int"), AliasedOf("S", "Str", <<"Str">>),
              Prop("Z", "Int")>>
      [] OTHER -> <<>>

\* The property of the elements of an array or set, or of the values of a map
\* (FArrayProperty::Inner, GetElementProperty, GetValueProperty)
InnerProp(p) ==
    [p EXCEPT !.kind = p.inner, !.inner = "None", !.key = "None", !.dim = 1]

\* The property of the keys of a map (FScriptMapHelper::GetKeyProperty)
KeyProp(p) ==
    [p EXCEPT !.kind = p.key, !.inner = "None", !.key = "None", !.dim = 1]

\* DataTableUtils::GetPropertyExportName
GetPropertyExportName(p) == p.name

\* DataTableUtils::GetPropertyImportNames: the export name, then the aliases
GetPropertyImportNames(p) == <<p.name>> \o p.aliases

(***************************************************************************)
(* Property values.  An integer property keeps IntBits bits, two's         *)
(* complement.  A set or map value keeps its entries in insertion order    *)
(* and whether it waits for a rehash.                                      *)
(***************************************************************************)
IntMin == 0 - Pow2(IntBits - 1)
IntMax == Pow2(IntBits - 1) - 1

\* FNumericProperty::SetIntPropertyValue: the int64 narrowed to the property
SetIntPropertyValue(v) == ((v - IntMin) % Pow2(IntBits)) + IntMin

EnumNames == <<"Red", "Green">>

RECURSIVE DefaultStruct(_)
\* UScriptStruct::InitializeStruct, one slot: the default value of a property
DefaultValue(p) ==
    CASE p.kind \in {"Int", "Double", "Enum", "ByteEnum"} -> 0
      [] p.kind = "Bool" -> FALSE
      [] p.kind = "Str" -> ""
      [] p.kind = "Array" -> <<>>
      [] p.kind = "Set" -> [elems |-> <<>>, needsRehash |-> FALSE]
      [] p.kind = "Map" -> [pairs |-> <<>>, needsRehash |-> FALSE]
      [] p.kind = "Struct" -> DefaultStruct(p.struct)
      [] OTHER -> ""

\* The slot of a property in a record: one value, or ArrayDim of them
DefaultSlot(p) ==
    IF p.dim = 1 THEN DefaultValue(p) ELSE [i \in 1..p.dim |-> DefaultValue(p)]

\* UScriptStruct::InitializeStruct: a record with every slot at its default
DefaultStruct(struct) ==
    LET fs == StructFields(struct)
    IN  [n \in {fs[i].name : i \in 1..Len(fs)} |->
            DefaultSlot(fs[CHOOSE i \in 1..Len(fs) : fs[i].name = n])]

(***************************************************************************)
(* String coercion (DataTableUtils::AssignStringToProperty and             *)
(* AssignStringToPropertyDirect): the error text is empty on success.      *)
(***************************************************************************)
NumericStrings == {"1", "2"}
StrToInt(s) == IF s = "1" THEN 1 ELSE 2

EnumIndex(s) == (CHOOSE i \in 1..Len(EnumNames) : EnumNames[i] = s) - 1

AssignStringToProperty(s, p, old) ==
    CASE p.kind = "Str" -> [error |-> "", value |-> s]
      [] p.kind \in {"Enum", "ByteEnum"} ->
            IF s \in Range(EnumNames)
            THEN [error |-> "", value |-> EnumIndex(s)]
            ELSE [error |-> "Invalid value", value |-> old]
      [] p.kind = "Int" ->
            IF s \in NumericStrings
            THEN [error |-> "", value |-> SetIntPropertyValue(StrToInt(s))]
            ELSE [error |-> "Invalid value", value |-> old]
      [] p.kind = "Struct" ->
            IF p.struct = "Inner" /\ s = "(X=1)"
            THEN [error |-> "", value |-> [X |-> 1]]
            ELSE [error |-> "Invalid value", value |-> old]
      [] OTHER -> [error |-> "Invalid value", value |-> old]

AssignStringToPropertyDirect(s, p, old) == AssignStringToProperty(s, p, old)

(***************************************************************************)
(* Problems: the strings appended to ImportProblems, kept as the format    *)
(* and its arguments.                                                      *)
(***************************************************************************)
Problem(fmt, rowIdx, rowName, col, entry, expected, got, text) ==
    [fmt |-> fmt, rowIdx |-> rowIdx, rowName |-> rowName, col |-> col,
     entry |-> entry, expected |-> expected, got |-> got, text |-> text]

\* What a reader returns: its result, the slot as it leaves it, the log
Ret(ret, data, problems) == [ret |-> ret, data |-> data, problems |-> problems]

\* FJsonSerializer::Deserialize of a string held in a JSON string value
\* (the double-encoded payloads): the texts the model knows to be JSON
EmbeddedJson(s) ==
    CASE s = "1" -> [ok |-> TRUE, value |-> JNum(1)]
      [] s = "[1]" -> [ok |-> TRUE, value |-> JArr(<<JNum(1)>>)]
      [] s = "true" -> [ok |-> TRUE, value |-> JBool(TRUE)]
      [] s = "{\"1\":1,\"x\":1}" ->
            [ok |-> TRUE, value |-> JObj(<< <<"1", JNum(1)>>, <<"x", JNum(1)>> >>)]
      [] OTHER -> [ok |-> FALSE, value |-> JNull]

(***************************************************************************)
(* The importer's readers.  Each takes the slot and the log as they are    *)
(* and returns Ret(result, slot, log).                                     *)
(***************************************************************************)
RECURSIVE ReadStruct(_, _, _, _, _)
RECURSIVE ReadStructFields(_, _, _, _, _, _)
RECURSIVE StructFieldRead(_, _, _, _, _, _, _)
RECURSIVE ReadStaticArrayEntries(_, _, _, _, _, _, _)
RECURSIVE StaticArrayEntryRead(_, _, _, _, _, _, _)
RECURSIVE ReadStructEntry(_, _, _, _, _, _)
RECURSIVE ReadArrayEntries(_, _, _, _, _, _, _)
RECURSIVE ArrayEntryRead(_, _, _, _, _, _, _)
RECURSIVE ReadSetEntries(_, _, _, _, _, _, _)
RECURSIVE SetEntryRead(_, _, _, _, _, _, _)
RECURSIVE ReadMapPairs(_, _, _, _, _, _, _)
RECURSIVE MapPairRead(_, _, _, _, _, _, _, _, _)
RECURSIVE ReadContainerEntry(_, _, _, _, _, _, _)

\* FGridlyDataTableImporterJSON::ReadContainerEntry
ReadContainerEntry(v, InRowName, InColumnName, InArrayEntryIndex, p, data, problems) ==
    LET ParsedPropertyType == JSONTypeToString(v.type)
        Bad(fmt, expected, text) ==
            Ret(FALSE, data,
                Append(problems, Problem(fmt, -1, InRowName, InColumnName,
                                         InArrayEntryIndex, expected, ParsedPropertyType, text)))
        EnumFromString ==
            LET r == AssignStringToPropertyDirect(v.s, p, data)
            IN  IF r.error # ""
                THEN Bad("EntryInvalidEnum", "", v.s)
                ELSE Ret(TRUE, r.value, problems)
        FromInteger ==
            IF ~TryGetNumber(v)
            THEN Bad("EntryIncorrectType", "Integer", "")
            ELSE Ret(TRUE, SetIntPropertyValue(v.n), problems)
        FromString ==
            LET r == AssignStringToPropertyDirect(v.s, p, data)
            IN  IF r.error # ""
                THEN Bad("EntryAssignString", "", v.s)
                ELSE Ret(TRUE, r.value, problems)
    IN  CASE p.kind = "Enum" ->
                IF TryGetString(v) THEN EnumFromString ELSE FromInteger
          [] p.kind \in {"Int", "Double", "ByteEnum"} ->
                IF p.kind = "ByteEnum" /\ TryGetString(v) THEN EnumFromString
                ELSE IF p.kind \in {"Int", "ByteEnum"} THEN FromInteger
                ELSE IF ~TryGetNumber(v)
                     THEN Bad("EntryIncorrectType", "Double", "")
                     ELSE Ret(TRUE, v.n, problems)
          [] p.kind = "Bool" ->
                IF ~TryGetBool(v)
                THEN Bad("EntryIncorrectType", "Boolean", "")
                ELSE Ret(TRUE, v.b, problems)
          [] p.kind = "Array" -> Ret(FALSE, data, problems)    \* cannot nest arrays
          [] p.kind = "Set" -> Ret(FALSE, data, problems)      \* cannot nest sets
          [] p.kind = "Map" -> Ret(FALSE, data, problems)      \* cannot nest maps
          [] p.kind = "Struct" ->
                IF TryGetObject(v)
                THEN ReadStruct(v.o, p.struct, InRowName, data, problems)
                ELSE IF ~TryGetString(v)
                     THEN Ret(FALSE, data,
                              Append(problems, Problem("IncorrectType", -1, InRowName,
                                     InColumnName, -1, "String", ParsedPropertyType, "")))
                     ELSE FromString
          [] OTHER ->
                IF ~TryGetString(v)
                THEN Bad("EntryIncorrectType", "String", "")
                ELSE FromString

\* The loop of ReadStructEntry over the entries of an array property, from
\* the i-th JSON value on: AddValue, then ReadContainerEntry into the new
\* entry, whose result is not looked at
ReadArrayEntries(values, i, InRowName, InColumnName, p, arr, problems) ==
    IF i > Len(values) THEN Ret(TRUE, arr, problems)
    ELSE ArrayEntryRead(
             ReadContainerEntry(values[i], InRowName, InColumnName, Len(arr),
                                InnerProp(p), DefaultValue(InnerProp(p)), problems),
             values, i, InRowName, InColumnName, p, arr)

\* The array loop left at the first entry that fails
ArrayEntryReadStops(r, values, i, InRowName, InColumnName, p, arr) ==
    IF ~r.ret
    THEN Ret(FALSE, Append(arr, r.data), r.problems)
    ELSE ReadArrayEntries(values, i + 1, InRowName, InColumnName, p,
                          Append(arr, r.data), r.problems)

\* The rest of the array loop once entry i has been read with outcome r
ArrayEntryRead(r, values, i, InRowName, InColumnName, p, arr) ==
    ReadArrayEntries(values, i + 1, InRowName, InColumnName, p,
                     Append(arr, r.data), r.problems)

\* The loop of ReadStructEntry over the entries of a set property:
\* AddDefaultValue_Invalid_NeedsRehash, then ReadContainerEntry
ReadSetEntries(values, i, InRowName, InColumnName, p, elems, problems) ==
    IF i > Len(values) THEN Ret(TRUE, elems, problems)
    ELSE SetEntryRead(
             ReadContainerEntry(values[i], InRowName, InColumnName, Len(elems),
                                InnerProp(p), DefaultValue(InnerProp(p)), problems),
             values, i, InRowName, InColumnName, p, elems)

\* The rest of the set loop once entry i has been read with outcome r
SetEntryRead(r, values, i, InRowName, InColumnName, p, elems) ==
    ReadSetEntries(values, i + 1, InRowName, InColumnName, p,
                   Append(elems, r.data), r.problems)

\* The loop of ReadStructEntry over the pairs of a map property, in document
\* order: add an entry, assign its key, read its value
ReadMapPairs(values, i, InRowName, InColumnName, p, pairs, problems) ==
    IF i > Len(values) THEN Ret(TRUE, pairs, problems)
    ELSE MapPairRead(
             AssignStringToPropertyDirect(values[i][1], KeyProp(p),
                                          DefaultValue(KeyProp(p))),
             ReadContainerEntry(values[i][2], InRowName, InColumnName, Len(pairs),
                                InnerProp(p), DefaultValue(InnerProp(p)), problems),
             values, i, InRowName, InColumnName, p, pairs, problems)

\* The map loop going on to the next pair after a pair that fails
MapPairReadGoesOn(key, r, values, i, InRowName, InColumnName, p, pairs, problems) ==
    LET NewEntryIndex == Len(pairs)
        added == Append(pairs, [k |-> DefaultValue(KeyProp(p)),
                                v |-> DefaultValue(InnerProp(p))])
    IN  IF key.error # ""
        THEN ReadMapPairs(values, i + 1, InRowName, InColumnName, p,
                          RemoveAt(added, NewEntryIndex + 1),
                          Append(problems, Problem("AssignKey", -1, InRowName,
                                                   InColumnName, -1, "", "", values[i][1])))
        ELSE IF ~r.ret
        THEN ReadMapPairs(values, i + 1, InRowName, InColumnName, p,
                          RemoveAt(added, NewEntryIndex + 1), r.problems)
        ELSE ReadMapPairs(values, i + 1, InRowName, InColumnName, p,
                          [added EXCEPT ![NewEntryIndex + 1] =
                               [k |-> key.value, v |-> r.data]],
                          r.problems)

\* The rest of the map loop once the key of pair i has been assigned with
\* outcome key and, if that went well, its value read with outcome r: a
\* failure removes the entry just added and returns at once
MapPairRead(key, r, values, i, InRowName, InColumnName, p, pairs, problems) ==
    LET NewEntryIndex == Len(pairs)
        added == Append(pairs, [k |-> DefaultValue(KeyProp(p)),
                                v |-> DefaultValue(InnerProp(p))])
    IN  IF key.error # ""
        THEN Ret(FALSE, RemoveAt(added, NewEntryIndex + 1),
                 Append(problems, Problem("AssignKey", -1, InRowName, InColumnName,
                                          -1, "", "", values[i][1])))
        ELSE IF ~r.ret
        THEN Ret(FALSE, RemoveAt(added, NewEntryIndex + 1), r.problems)
        ELSE ReadMapPairs(values, i + 1, InRowName, InColumnName, p,
                          [added EXCEPT ![NewEntryIndex + 1] =
                               [k |-> key.value, v |-> r.data]],
                          r.problems)

\* What ReadStructEntry returns after the loop over an array
ArrayRead(r) == Ret(TRUE, r.data, r.problems)

\* What ReadStructEntry returns after the loop over a set: SetHelper.Rehash()
SetRead(r) == Ret(TRUE, [elems |-> r.data, needsRehash |-> FALSE], r.problems)

\* What ReadStructEntry returns after the loop over a map: a failure returned
\* from inside the loop, with no Rehash; otherwise MapHelper.Rehash()
MapRead(r) ==
    IF ~r.ret
    THEN Ret(FALSE, [pairs |-> r.data, needsRehash |-> TRUE], r.problems)
    ELSE Ret(TRUE, [pairs |-> r.data, needsRehash |-> FALSE], r.problems)

\* FGridlyDataTableImporterJSON::ReadStructEntry
ReadStructEntry(v, InRowName, InColumnName, p, data, problems) ==
    LET ParsedPropertyType == JSONTypeToString(v.type)
        Bad(fmt, expected, text) ==
            Ret(FALSE, data,
                Append(problems, Problem(fmt, -1, InRowName, InColumnName, -1,
                                         expected, ParsedPropertyType, text)))
        EnumFromString ==
            LET r == AssignStringToProperty(v.s, p, data)
            IN  IF r.error # ""
                THEN Bad("InvalidEnum", "", v.s)
                ELSE Ret(TRUE, r.value, problems)
        FromInteger ==
            IF ~TryGetNumber(v)
            THEN Bad("IncorrectType", "Integer", "")
            ELSE Ret(TRUE, SetIntPropertyValue(v.n), problems)
        FromString ==
            LET r == AssignStringToProperty(v.s, p, data)
            IN  IF r.error # ""
                THEN Bad("AssignString", "", v.s)
                ELSE Ret(TRUE, r.value, problems)
    IN  CASE p.kind = "Enum" ->
                IF TryGetString(v) THEN EnumFromString ELSE FromInteger
          [] p.kind \in {"Int", "Double", "ByteEnum"} ->
                IF p.kind = "ByteEnum" /\ TryGetString(v) THEN EnumFromString
                ELSE IF p.kind \in {"Int", "ByteEnum"} THEN FromInteger
                ELSE IF ~TryGetNumber(v)
                     THEN Bad("IncorrectType", "Double", "")
                     ELSE Ret(TRUE, v.n, problems)
          [] p.kind = "Bool" ->
                IF ~TryGetBool(v)
                THEN Bad("IncorrectType", "Boolean", "")
                ELSE Ret(TRUE, v.b, problems)
          [] p.kind = "Array" ->
                IF ~TryGetArray(v)
                THEN Bad("IncorrectType", "Array", "")
                ELSE ArrayRead(ReadArrayEntries(v.a, 1, InRowName, InColumnName, p,
                                                <<>>, problems))
          [] p.kind = "Set" ->
                IF ~TryGetArray(v)
                THEN Bad("IncorrectType", "Array", "")
                ELSE SetRead(ReadSetEntries(v.a, 1, InRowName, InColumnName, p,
                                            <<>>, problems))
          [] p.kind = "Map" ->
                IF ~TryGetObject(v)
                THEN Bad("IncorrectType", "Object", "")
                ELSE MapRead(ReadMapPairs(v.o, 1, InRowName, InColumnName, p,
                                          <<>>, problems))
          [] p.kind = "Struct" ->
                IF TryGetObject(v)
                THEN ReadStruct(v.o, p.struct, InRowName, data, problems)
                ELSE IF ~TryGetString(v)
                     THEN Bad("IncorrectType", "String", "")
                     ELSE FromString
          [] OTHER ->
                IF ~TryGetString(v)
                THEN Bad("IncorrectType", "String", "")
                ELSE FromString

\* The loop of ReadStruct over the ArrayDim slots of a static array, from
\* index idx on: every index the JSON array holds is read, whatever the
\* outcome of the ones before
ReadStaticArrayEntries(values, idx, InRowName, ColumnName, p, slot, problems) ==
    IF idx >= p.dim THEN Ret(TRUE, slot, problems)
    ELSE IF idx + 1 \in 1..Len(values)
    THEN StaticArrayEntryRead(
             ReadContainerEntry(values[idx + 1], InRowName, ColumnName, idx,
                                p, slot[idx + 1], problems),
             values, idx, InRowName, ColumnName, p, slot)
    ELSE ReadStaticArrayEntries(values, idx + 1, InRowName, ColumnName, p, slot, problems)

\* The static array loop left at the first index that fails
StaticArrayEntryReadStops(r, values, idx, InRowName, ColumnName, p, slot) ==
    IF ~r.ret
    THEN Ret(FALSE, [slot EXCEPT ![idx + 1] = r.data], r.problems)
    ELSE ReadStaticArrayEntries(values, idx + 1, InRowName, ColumnName, p,
                                [slot EXCEPT ![idx + 1] = r.data], r.problems)

\* The rest of the static array loop once index idx has been read with outcome r
StaticArrayEntryRead(r, values, idx, InRowName, ColumnName, p, slot) ==
    ReadStaticArrayEntries(values, idx + 1, InRowName, ColumnName, p,
                           [slot EXCEPT ![idx + 1] = r.data], r.problems)

\* The second attempt with its failure absorbed: nothing logged, the slot
\* back at its default
RetryStructEntryAbsorbs(r1, v, InRowName, ColumnName, BaseProp) ==
    IF /\ bArbitraryStruct
       /\ ~r1.ret
       /\ v.type = "String"
       /\ EmbeddedJson(v.s).ok
    THEN LET r2 == ReadStructEntry(EmbeddedJson(v.s).value, InRowName, ColumnName,
                                   BaseProp, r1.data, r1.problems)
         IN  IF r2.ret THEN r2 ELSE Ret(FALSE, DefaultSlot(BaseProp), r1.problems)
    ELSE r1

\* The second attempt of ReadStruct on an ArrayDim == 1 property, after the
\* first ReadStructEntry ended with outcome r1: when the build allows
\* arbitrary structs, the first attempt failed and the value is a string that
\* parses as JSON, ReadStructEntry is called once more on the parsed value
RetryStructEntry(r1, v, InRowName, ColumnName, BaseProp) ==
    IF /\ bArbitraryStruct
       /\ ~r1.ret
       /\ v.type = "String"
       /\ EmbeddedJson(v.s).ok
    THEN ReadStructEntry(EmbeddedJson(v.s).value, InRowName, ColumnName, BaseProp,
                         r1.data, r1.problems)
    ELSE r1

\* The static array branch of ReadStruct once the value is known to be an
\* array: the size check, then the entries
ReadStaticArray(values, InRowName, ColumnName, BaseProp, slot, problems) ==
    ReadStaticArrayEntries(values, 0, InRowName, ColumnName, BaseProp, slot,
        IF BaseProp.dim # Len(values)
        THEN Append(problems, Problem("StaticArraySize", -1, InRowName, ColumnName,
                                      -1, "", "", ""))
        ELSE problems)

\* The JSON value ReadStruct finds for a property: that of the first import
\* name the object holds; found is FALSE when it holds none
FindPropertyValue(InParsedObject, names) ==
    LET found == {j \in 1..Len(names) : HasField(InParsedObject, names[j])}
    IN  IF found = {}
        THEN [found |-> FALSE, value |-> JNull]
        ELSE [found |-> TRUE,
              value |-> FieldOf(InParsedObject,
                                names[CHOOSE j \in found : \A k \in found : j <= k])]

\* The missing entry logged whether or not the property is optional
MissingEntryProblemsAlways(BaseProp, InRowName, ColumnName, problems) ==
    IF bIgnoreMissingFields
    THEN problems
    ELSE Append(problems, Problem("MissingEntry", -1, InRowName, ColumnName, -1, "", "", ""))

\* The log of ReadStruct after a property none of whose import names is in
\* the object: nothing for a property with the DataTableImportOptional
\* metadata (editor builds, the only ones that hold metadata), else a
\* problem unless the table ignores missing fields
MissingEntryProblems(BaseProp, InRowName, ColumnName, problems) ==
    IF BaseProp.optional \/ bIgnoreMissingFields
    THEN problems
    ELSE Append(problems, Problem("MissingEntry", -1, InRowName, ColumnName, -1, "", "", ""))

\* The loop of ReadStruct over the properties of InStruct, from the i-th on
ReadStructFields(InParsedObject, InStruct, InRowName, data, problems, i) ==
    IF i > Len(StructFields(InStruct)) THEN Ret(TRUE, data, problems)
    ELSE
    LET BaseProp == StructFields(InStruct)[i]
        ColumnName == GetPropertyExportName(BaseProp)
        ParsedPropertyValue ==
            FindPropertyValue(InParsedObject, GetPropertyImportNames(BaseProp))
    IN  IF ~ParsedPropertyValue.found
        THEN ReadStructFields(InParsedObject, InStruct, InRowName, data,
                 MissingEntryProblems(BaseProp, InRowName, ColumnName, problems),
                 i + 1)
        ELSE IF BaseProp.dim = 1
        THEN StructFieldRead(
                 RetryStructEntry(
                     ReadStructEntry(ParsedPropertyValue.value, InRowName, ColumnName,
                                     BaseProp, data[BaseProp.name], problems),
                     ParsedPropertyValue.value, InRowName, ColumnName, BaseProp),
                 InParsedObject, InStruct, InRowName, data, BaseProp, i)
        ELSE IF ~TryGetArray(ParsedPropertyValue.value)
        THEN Ret(FALSE, data,
                 Append(problems, Problem("IncorrectType", -1, InRowName, ColumnName, -1,
                            "Array", JSONTypeToString(ParsedPropertyValue.value.type), "")))
        ELSE StructFieldRead(
                 ReadStaticArray(ParsedPropertyValue.value.a, InRowName, ColumnName,
                                 BaseProp, data[BaseProp.name], problems),
                 InParsedObject, InStruct, InRowName, data, BaseProp, i)

\* The property loop left with a failure at the first property whose read
\* fails
StructFieldReadStops(r, InParsedObject, InStruct, InRowName, data, BaseProp, i) ==
    IF ~r.ret
    THEN Ret(FALSE, [data EXCEPT ![BaseProp.name] = r.data], r.problems)
    ELSE ReadStructFields(InParsedObject, InStruct, InRowName,
                          [data EXCEPT ![BaseProp.name] = r.data], r.problems, i + 1)

\* The rest of the property loop once the i-th property has been read with
\* outcome r: the result of the read is not looked at
StructFieldRead(r, InParsedObject, InStruct, InRowName, data, BaseProp, i) ==
    ReadStructFields(InParsedObject, InStruct, InRowName,
                     [data EXCEPT ![BaseProp.name] = r.data], r.problems, i + 1)

\* FGridlyDataTableImporterJSON::ReadStruct
ReadStruct(InParsedObject, InStruct, InRowName, InStructData, problems) ==
    ReadStructFields(InParsedObject, InStruct, InRowName, InStructData, problems, 1)

(***************************************************************************)
(* The row map (TMap<FName, uint8*>) as a sequence of [key, data] in       *)
(* key-enumeration order.                                                  *)
(***************************************************************************)
Keys(rowMap) == [i \in 1..Len(rowMap) |-> rowMap[i].key]

\* TMap::Find
Find(rowMap, RowName) == \E i \in 1..Len(rowMap) : rowMap[i].key = RowName

\* The record registered under a key
RowOf(rowMap, RowName) == rowMap[CHOOSE i \in 1..Len(rowMap) : rowMap[i].key = RowName].data

\* EmptyTable leaving the rows in place
EmptyTableKeeps(rowMap) == rowMap

\* UDataTable::EmptyTable
EmptyTable(rowMap) == <<>>

\* UGridlyDataTable::AddRowInternal: RowMap.Add(RowName, RowData), which
\* replaces the record of a key the map already holds
AddRowInternal(rowMap, RowName, RowData) ==
    IF Find(rowMap, RowName)
    THEN [i \in 1..Len(rowMap) |->
            IF rowMap[i].key = RowName THEN [key |-> RowName, data |-> RowData]
            ELSE rowMap[i]]
    ELSE Append(rowMap, [key |-> RowName, data |-> RowData])

\* The record behind the pointer registered under RowName, written in place
SetRowData(rowMap, RowName, RowData) ==
    [i \in 1..Len(rowMap) |->
        IF rowMap[i].key = RowName THEN [key |-> RowName, data |-> RowData]
        ELSE rowMap[i]]

\* GridlyDataTableJSONUtils::GetKeyFieldName
GetKeyFieldName == IF ImportKeyField = "" THEN "Name" ELSE ImportKeyField

\* DataTableUtils::MakeValidName: the name with its invalid characters
\* replaced; the empty string makes the name None
MakeValidName(s) ==
    CASE s = "" -> "None"
      [] s = "a b" -> "a_b"
      [] OTHER -> s

\* A name never taken for None
IsNoneNever(name) == FALSE

\* FName::IsNone
IsNone(name) == name = "None"

\* The extra-field scan of ReadRow, from the i-th pair of the row object on
RECURSIVE DetectExtraFields(_, _, _, _, _)
DetectExtraFields(o, i, RowKey, RowName, problems) ==
    IF i > Len(o) THEN problems
    ELSE LET key == o[i][1]
             PropName == MakeValidName(key)
             fs == StructFields(RowStruct)
             ColumnProp == \/ \E j \in 1..Len(fs) : fs[j].name = PropName
                           \/ \E j \in 1..Len(fs) : key \in Range(GetPropertyImportNames(fs[j]))
         IN  IF key = RowKey \/ ColumnProp
             THEN DetectExtraFields(o, i + 1, RowKey, RowName, problems)
             ELSE DetectExtraFields(o, i + 1, RowKey, RowName,
                      Append(problems, Problem("ExtraProperty", -1, RowName, PropName,
                                               -1, "", "", RowStruct)))

\* The end of ReadRow taking the record out of the row map when ReadStruct
\* failed
RowReadUnregisters(r, registered, RowName) ==
    IF r.ret
    THEN [ret |-> r.ret, rowMap |-> SetRowData(registered, RowName, r.data),
          problems |-> r.problems]
    ELSE [ret |-> r.ret,
          rowMap |-> SelectSeq(registered, LAMBDA row : row.key # RowName),
          problems |-> r.problems]

\* The end of ReadRow once ReadStruct has populated the registered record
\* with outcome r
RowRead(r, registered, RowName) ==
    [ret |-> r.ret, rowMap |-> SetRowData(registered, RowName, r.data),
     problems |-> r.problems]

\* ReadRow without the duplicate check
ReadRowNoDuplicateCheck(InParsedTableRowObject, InRowIdx, rowMap, problems) ==
    LET RowKey == GetKeyFieldName
        RowName == MakeValidName(GetStringField(InParsedTableRowObject, RowKey))
        RowData == DefaultStruct(RowStruct)
    IN  IF IsNone(RowName)
        THEN [ret |-> FALSE, rowMap |-> rowMap,
              problems |-> Append(problems, Problem("MissingKeyField", InRowIdx, "", "",
                                                    -1, "", "", RowKey))]
        ELSE RowRead(ReadStruct(InParsedTableRowObject, RowStruct, RowName, RowData,
                         IF ~bIgnoreExtraFields
                         THEN DetectExtraFields(InParsedTableRowObject, 1, RowKey,
                                                RowName, problems)
                         ELSE problems),
                     AddRowInternal(rowMap, RowName, RowData), RowName)

\* FGridlyDataTableImporterJSON::ReadRow: returns the result, the row map
\* and the log
ReadRow(InParsedTableRowObject, InRowIdx, rowMap, problems) ==
    LET RowKey == GetKeyFieldName
        RowName == MakeValidName(GetStringField(InParsedTableRowObject, RowKey))
        RowData == DefaultStruct(RowStruct)
    IN  IF IsNone(RowName)
        THEN [ret |-> FALSE, rowMap |-> rowMap,
              problems |-> Append(problems, Problem("MissingKeyField", InRowIdx, "", "",
                                                    -1, "", "", RowKey))]
        ELSE IF ~bAllowDuplicateRows /\ Find(rowMap, RowName)
        THEN [ret |-> FALSE, rowMap |-> rowMap,
              problems |-> Append(problems, Problem("DuplicateRowName", -1, RowName, "",
                                                    -1, "", "", ""))]
        ELSE \* the record is registered, then populated in place
             RowRead(ReadStruct(InParsedTableRowObject, RowStruct, RowName, RowData,
                         IF ~bIgnoreExtraFields
                         THEN DetectExtraFields(InParsedTableRowObject, 1, RowKey,
                                                RowName, problems)
                         ELSE problems),
                     AddRowInternal(rowMap, RowName, RowData), RowName)

(***************************************************************************)
(* The input text.  text tells what the text is: "empty", "malformed",     *)
(* "object" (well-formed JSON whose top level is no array) or "array";     *)
(* rows are the elements of the top-level array.                           *)
(***************************************************************************)
Text(text, rows) == [text |-> text, rows |-> rows]

\* FJsonSerializer::Deserialize(JsonReader, ParsedTableRows)
Deserialize(data) == [ok |-> data.text = "array", rows |-> data.rows]

RECURSIVE ReadTableRows(_, _, _, _)
RECURSIVE TableRowRead(_, _, _)

\* The row loop leaving at the first element that is no object
ReadTableRowsBreak(ParsedTableRows, RowIdx, rowMap, problems) ==
    IF RowIdx >= Len(ParsedTableRows)
    THEN [ret |-> TRUE, rowMap |-> rowMap, problems |-> problems]
    ELSE IF ParsedTableRows[RowIdx + 1].type # "Object"
    THEN [ret |-> TRUE, rowMap |-> rowMap,
          problems |-> Append(problems,
                              Problem("RowNotObject", RowIdx, "", "", -1, "", "", ""))]
    ELSE TableRowRead(ReadRow(ParsedTableRows[RowIdx + 1].o, RowIdx, rowMap, problems),
                      ParsedTableRows, RowIdx)

\* The row loop of ReadTable, from the element of index RowIdx on
ReadTableRows(ParsedTableRows, RowIdx, rowMap, problems) ==
    IF RowIdx >= Len(ParsedTableRows)
    THEN [ret |-> TRUE, rowMap |-> rowMap, problems |-> problems]
    ELSE IF ParsedTableRows[RowIdx + 1].type # "Object"
    THEN ReadTableRows(ParsedTableRows, RowIdx + 1, rowMap,
             Append(problems, Problem("RowNotObject", RowIdx, "", "", -1, "", "", "")))
    ELSE TableRowRead(ReadRow(ParsedTableRows[RowIdx + 1].o, RowIdx, rowMap, problems),
                      ParsedTableRows, RowIdx)

\* The row loop left with a failure at the first row that fails
TableRowReadAborts(r, ParsedTableRows, RowIdx) ==
    IF ~r.ret
    THEN [ret |-> FALSE, rowMap |-> r.rowMap,
          problems |-> Append(r.problems,
                              Problem("FailedToReadRow", RowIdx, "", "", -1, "", "", ""))]
    ELSE ReadTableRows(ParsedTableRows, RowIdx + 1, r.rowMap, r.problems)

\* The rest of the row loop once ReadRow has returned r for element RowIdx
TableRowRead(r, ParsedTableRows, RowIdx) ==
    ReadTableRows(ParsedTableRows, RowIdx + 1, r.rowMap,
        IF ~r.ret
        THEN Append(r.problems, Problem("FailedToReadRow", RowIdx, "", "", -1, "", "", ""))
        ELSE r.problems)

\* ReadTable without the test for an array of no element
ReadTableAcceptsNoRows(data, rowMap, problems) ==
    IF data.text = "empty"
    THEN [ret |-> FALSE, rowMap |-> rowMap,
          problems |-> Append(problems, Problem("InputEmpty", -1, "", "", -1, "", "", ""))]
    ELSE IF RowStruct = "None"
    THEN [ret |-> FALSE, rowMap |-> rowMap,
          problems |-> Append(problems, Problem("NoRowStruct", -1, "", "", -1, "", "", ""))]
    ELSE IF ~Deserialize(data).ok
    THEN [ret |-> FALSE, rowMap |-> rowMap,
          problems |-> Append(problems, Problem("FailedToParse", -1, "", "", -1, "", "", ""))]
    ELSE ReadTableRows(Deserialize(data).rows, 0, EmptyTable(rowMap), problems)

\* FGridlyDataTableImporterJSON::ReadTable: returns the result, the row map
\* and the log
ReadTable(data, rowMap, problems) ==
    IF data.text = "empty"
    THEN [ret |-> FALSE, rowMap |-> rowMap,
          problems |-> Append(problems, Problem("InputEmpty", -1, "", "", -1, "", "", ""))]
    ELSE IF RowStruct = "None"
    THEN [ret |-> FALSE, rowMap |-> rowMap,
          problems |-> Append(problems, Problem("NoRowStruct", -1, "", "", -1, "", "", ""))]
    ELSE IF ~Deserialize(data).ok \/ Len(Deserialize(data).rows) = 0
    THEN [ret |-> FALSE, rowMap |-> rowMap,
          problems |-> Append(problems, Problem("FailedToParse", -1, "", "", -1, "", "", ""))]
    ELSE ReadTableRows(Deserialize(data).rows, 0, EmptyTable(rowMap), problems)

(***************************************************************************)
(* The exporter.  OutJsonString is kept as what the writer wrote: whether  *)
(* the top-level array was started, the row objects written, and whether   *)
(* the array was ended.  A row object and a cell are JSON objects whose    *)
(* pairs are in the order written.  The record types exported in this      *)
(* model hold no array or set property, so the conditionally compiled      *)
(* array and set branches are not entered.                                 *)
(***************************************************************************)
SizeMax == Pow2(SizeBits)

NoOutput == [started |-> FALSE, rows |-> <<>>, ended |-> FALSE]

\* DataTableUtils::GetPropertyValueAsString
GetPropertyValueAsString(p, value) ==
    CASE p.kind = "Str" -> value
      [] p.kind \in {"Enum", "ByteEnum"} ->
            IF value + 1 \in 1..Len(EnumNames) THEN EnumNames[value + 1] ELSE ToString(value)
      [] OTHER -> ToString(value)

\* The cell value written as the property's text for every kind
CellValueAsString(BaseProp, value) == JStr(GetPropertyValueAsString(BaseProp, value))

\* The value written into a cell of an ArrayDim == 1 property
CellValue(BaseProp, value) ==
    CASE BaseProp.kind = "Enum" -> JStr(GetPropertyValueAsString(BaseProp, value))
      [] BaseProp.kind = "ByteEnum" -> JStr(GetPropertyValueAsString(BaseProp, value))
      [] BaseProp.kind = "Int" -> JNum(value)
      [] BaseProp.kind = "Double" -> JNum(value)
      [] BaseProp.kind = "Bool" -> JBool(value)
      [] OTHER -> JStr(GetPropertyValueAsString(BaseProp, value))

\* The property loop of ConvertToJson over one row, from the i-th property
\* on: the cells written so far, PathValue and bPathFound
RECURSIVE ExportCells(_, _, _, _)
ExportCells(fs, RowData, i, acc) ==
    IF i > Len(fs) THEN acc
    ELSE LET BaseProp == fs[i]
             Identifier == GetPropertyExportName(BaseProp)
             slot == RowData[BaseProp.name]
             first == IF BaseProp.dim = 1 THEN slot ELSE slot[1]
         IN  IF Identifier = "_path"
             THEN ExportCells(fs, RowData, i + 1,
                      [acc EXCEPT !.PathValue = GetPropertyValueAsString(BaseProp, first),
                                  !.bPathFound = TRUE])
             ELSE IF BaseProp.dim = 1
             THEN ExportCells(fs, RowData, i + 1,
                      [acc EXCEPT !.cells = Append(@,
                          JObj(<< <<"columnId", JStr(Identifier)>>,
                                  <<"value", CellValue(BaseProp, slot)>> >>))])
             ELSE ExportCells(fs, RowData, i + 1, acc)

\* The row object written with an empty path whatever the record holds
ExportRowEmptyPath(RowName, RowData) ==
    LET c == ExportCells(StructFields(RowStruct), RowData, 1,
                         [cells |-> <<>>, PathValue |-> "", bPathFound |-> FALSE])
    IN  JObj(<< <<"id", JStr(RowName)>>,
                <<"cells", JArr(c.cells)>>,
                <<"path", JStr("")>> >>)

\* The row object ConvertToJson writes for one row: id, cells, then path
ExportRow(RowName, RowData) ==
    LET c == ExportCells(StructFields(RowStruct), RowData, 1,
                         [cells |-> <<>>, PathValue |-> "", bPathFound |-> FALSE])
    IN  JObj(<< <<"id", JStr(RowName)>>,
                <<"cells", JArr(c.cells)>>,
                <<"path", JStr(IF c.bPathFound THEN c.PathValue ELSE "")>> >>)

\* EndIndex computed as a count of rows, without StartIndex
EndIndexOfCount(StartIndex, MaxSize, Num) == Min(MaxSize % SizeMax, Num)

\* EndIndex of ConvertToJson: FMath::Min(StartIndex + MaxSize, Keys.Num()), the
\* sum taken in size_t
EndIndexOf(StartIndex, MaxSize, Num) == Min((StartIndex + MaxSize) % SizeMax, Num)

\* FGridlyExporter::ConvertToJson(GridlyDataTable, OutJsonString, StartIndex, MaxSize)
ConvertToJson(rowMap, StartIndex, MaxSize) ==
    LET keys == Keys(rowMap)
        EndIndex == EndIndexOf(StartIndex, MaxSize, Len(keys))
    IN  IF RowStruct = "None"
        THEN [ret |-> FALSE, out |-> NoOutput]
        ELSE IF StartIndex < Len(keys)
        THEN [ret |-> TRUE,      \* JsonWriter->Close() after WriteArrayEnd
              out |-> [started |-> TRUE,
                       rows |-> [n \in 1..(IF EndIndex > StartIndex
                                           THEN EndIndex - StartIndex ELSE 0) |->
                                    ExportRow(keys[StartIndex + n],
                                              RowOf(rowMap, keys[StartIndex + n]))],
                       ended |-> TRUE]]
        ELSE [ret |-> FALSE,
              out |-> [started |-> TRUE, rows |-> <<>>, ended |-> FALSE]]

(***************************************************************************)
(* The state machine: an importer constructed over a table and an input    *)
(* text reads the table once; the table is exported page by page.          *)
(***************************************************************************)
Row(key, data) == [key |-> key, data |-> data]

NotExported == [called |-> FALSE, at |-> "none", StartIndex |-> 0, MaxSize |-> 0,
                ret |-> FALSE, out |-> NoOutput]

\* A row object of an input document: the key under Name, then the fields
ScalarsRow(key, b, i, str) ==
    JObj(<< <<"Name", JStr(key)>>, <<"B", JBool(b)>>, <<"I", JNum(i)>>,
            <<"S", JStr(str)>> >>)

PathRowRow(key, i, path, str) ==
    JObj(<< <<"Name", JStr(key)>>, <<"I", JNum(i)>>, <<"_path", JStr(path)>>,
            <<"S", JStr(str)>> >>)

\* The elements the documents of a table of this record type are made of
RowElems(struct) ==
    CASE struct = "Scalars" ->
            {JStr("junk"),
             ScalarsRow("a", TRUE, 1, "x"),
             ScalarsRow("a", FALSE, 5, "y"),
             ScalarsRow("b", TRUE, 3, "x")}
      [] struct = "PathRow" ->
            {PathRowRow("a", 1, "p", "x"),
             PathRowRow("b", 2, "", "y"),
             JObj(<< <<"I", JNum(1)>>, <<"_path", JStr("p")>>, <<"S", JStr("x")>> >>)}
      [] OTHER ->
            {JStr("junk"), ScalarsRow("a", TRUE, 1, "x")}

\* The input texts: no text, a malformed one, one whose top level is an
\* object, and the arrays of up to MaxRows elements
Texts(struct) ==
    {Text("empty", <<>>), Text("malformed", <<>>), Text("object", <<>>)}
    \cup {Text("array", rows) :
            rows \in UNION {[1..n -> RowElems(struct)] : n \in 0..MaxRows}}

\* The tables an importer can be constructed over: left by an earlier import
PriorTables(struct) ==
    CASE struct = "PathRow" ->
            {<<>>, <<Row("a", [I |-> 3, _path |-> "old", S |-> "old"])>>}
      [] struct = "Scalars" ->
            {<<>>,
             <<Row("c", [B |-> FALSE, I |-> 3, S |-> "r0"]),
               Row("a", [B |-> TRUE, I |-> 0, S |-> "r1"]),
               Row("b", [B |-> TRUE, I |-> 1, S |-> "r2"])>>}
      [] OTHER -> {<<>>}

Init ==
    /\ RowStruct \in {"Scalars", "PathRow", "None"}
    /\ bAllowDuplicateRows \in BOOLEAN
    /\ bIgnoreExtraFields = FALSE
    /\ bIgnoreMissingFields = FALSE
    /\ ImportKeyField = ""
    /\ bArbitraryStruct = FALSE
    /\ RowMap \in PriorTables(RowStruct)
    /\ PriorRowMap = RowMap
    /\ JSONData \in Texts(RowStruct)
    /\ ImportProblems = <<>>
    /\ pc = "constructed"
    /\ ReadTableResult = "none"
    /\ Exported = NotExported

\* The call of ReadTable on the importer
ReadTableStep ==
    /\ pc = "constructed"
    /\ LET r == ReadTable(JSONData, RowMap, ImportProblems)
       IN  /\ RowMap' = r.rowMap
           /\ ImportProblems' = r.problems
           /\ ReadTableResult' = IF r.ret THEN "true" ELSE "false"
    /\ pc' = "read"
    /\ UNCHANGED <<RowStruct, bAllowDuplicateRows, bIgnoreExtraFields,
                   bIgnoreMissingFields, ImportKeyField, bArbitraryStruct, JSONData,
                   PriorRowMap, Exported>>

\* A call of ConvertToJson on the table
ConvertToJsonStep(StartIndex, MaxSize) ==
    /\ LET r == ConvertToJson(RowMap, StartIndex, MaxSize)
       IN  Exported' = [called |-> TRUE, at |-> pc, StartIndex |-> StartIndex, MaxSize |-> MaxSize,
                        ret |-> r.ret, out |-> r.out]
    /\ UNCHANGED <<RowStruct, bAllowDuplicateRows, bIgnoreExtraFields,
                   bIgnoreMissingFields, ImportKeyField, bArbitraryStruct, RowMap,
                   JSONData, ImportProblems, pc, PriorRowMap, ReadTableResult>>

\* The page requests drawn: ordinary pages, and a page size of SIZE_MAX
StartIndices == 0..MaxRows
PageSizes == (0..MaxPage) \cup {SizeMax - 1}

Next ==
    \/ ReadTableStep
    \/ \E StartIndex \in StartIndices, MaxSize \in PageSizes :
            ConvertToJsonStep(StartIndex, MaxSize)

Spec == Init /\ [][Next]_vars

(***************************************************************************)
(* The importer over a table whose record type holds containers: one row   *)
(* that supplies one container field between two integer fields.           *)
(***************************************************************************)

\* The sequences of up to n elements of a set
SeqsUpTo(S, n) == UNION {[1..m -> S] : m \in 0..n}

\* The JSON values found as entries: a number, a string, an array
EntryValues == {JNum(1), JStr("x"), JArr(<<JNum(1)>>)}

\* The names of the pairs of a JSON object serving as a map
MapKeys == {"1", "2", "x"}

\* The JSON objects of up to MaxEntries pairs under distinct names
MapObjects ==
    {JObj(pairs) : pairs \in
        {q \in SeqsUpTo(MapKeys \X EntryValues, MaxEntries) :
            \A i, j \in 1..Len(q) : q[i][1] = q[j][1] => i = j}}

\* The JSON arrays of up to MaxEntries entries
EntryArrays == {JArr(a) : a \in SeqsUpTo(EntryValues, MaxEntries)}

\* The values a document gives a field: arrays, objects, and strings that
\* do or do not hold JSON
FieldValues(p) ==
    CASE p.kind = "Map" ->
            MapObjects \cup {JStr("bad"), JStr("[1]"), JStr("1"), JStr("{\"1\":1,\"x\":1}")}
      [] p.kind = "Struct" ->
            {JObj(<< <<"F2", f>>, <<"X", JNum(1)>> >>) :
                f \in {JStr("bad"), JArr(<<JNum(1), JNum(1)>>)}}
            \cup {JStr("bad"), JStr("[1]"), JNum(1)}
      [] OTHER -> EntryArrays \cup {JStr("bad"), JStr("[1]"), JStr("1")}

ContainerFields == {p \in Range(StructFields("Containers")) : p.name \notin {"Y", "Z"}}

\* The first row object of a document: the key, Y, one container field, Z
ContainersRow(p, value) ==
    JObj(<< <<"Name", JStr("r")>>, <<"Y", JNum(1)>>, <<p.name, value>>, <<"Z", JNum(2)>> >>)

\* The row object that follows it: the key, Y and Z
FollowingRow == JObj(<< <<"Name", JStr("s")>>, <<"Y", JNum(1)>>, <<"Z", JNum(2)>> >>)

ContainerTexts ==
    UNION {{Text("array", <<ContainersRow(p, value), FollowingRow>>) :
                value \in FieldValues(p)} :
              p \in ContainerFields}

InitContainers ==
    /\ RowStruct = "Containers"
    /\ bAllowDuplicateRows = FALSE
    /\ bIgnoreExtraFields = FALSE
    /\ bIgnoreMissingFields \in BOOLEAN
    /\ ImportKeyField = ""
    /\ bArbitraryStruct \in BOOLEAN
    /\ RowMap = <<>>
    /\ PriorRowMap = RowMap
    /\ JSONData \in ContainerTexts
    /\ ImportProblems = <<>>
    /\ pc = "constructed"
    /\ ReadTableResult = "none"
    /\ Exported = NotExported

NextContainers == ReadTableStep

SpecContainers == InitContainers /\ [][NextContainers]_vars

(***************************************************************************)
(* The importer over a table whose record type has an optional field and   *)
(* a field with an alias, under either key field name: documents of one    *)
(* row, or of a complete row followed by one row.                          *)
(***************************************************************************)

\* The pairs a row object can hold for its key, and for each field
KeyPairs == {<<>>, << <<"Name", JStr("a")>> >>, << <<"Name", JStr("")>> >>,
             << <<"Id", JStr("b")>> >>}
BPairs == {<<>>, << <<"B", JBool(TRUE)>> >>, << <<"B", JStr("x")>> >>}
IPairs == {<<>>, << <<"I", JNum(1)>> >>}
SPairs == {<<>>, << <<"S", JStr("x")>> >>, << <<"Str", JStr("y")>> >>}
ExtraPairs == {<<>>, << <<"E", JNum(1)>> >>}

TaggedRows ==
    {JObj(k \o b \o i \o str \o e \o << <<"Z", JNum(2)>> >>) :
        k \in KeyPairs, b \in BPairs, i \in IPairs, str \in SPairs, e \in ExtraPairs}

\* A row that holds a key under either key field name and every field
CompleteRow ==
    JObj(<< <<"Name", JStr("g")>>, <<"Id", JStr("g")>>, <<"B", JBool(TRUE)>>,
            <<"I", JNum(2)>>, <<"S", JStr("z")>>, <<"Z", JNum(1)>> >>)

TaggedTexts ==
    {Text("array", <<row>>) : row \in TaggedRows}
    \cup {Text("array", <<CompleteRow, row>>) : row \in TaggedRows}

InitRows ==
    /\ RowStruct = "Tagged"
    /\ bAllowDuplicateRows = FALSE
    /\ bIgnoreExtraFields \in BOOLEAN
    /\ bIgnoreMissingFields \in BOOLEAN
    /\ ImportKeyField \in {"", "Id"}
    /\ bArbitraryStruct = FALSE
    /\ RowMap = <<>>
    /\ PriorRowMap = RowMap
    /\ JSONData \in TaggedTexts
    /\ ImportProblems = <<>>
    /\ pc = "constructed"
    /\ ReadTableResult = "none"
    /\ Exported = NotExported

NextRows == ReadTableStep

SpecRows == InitRows /\ [][NextRows]_vars

(***************************************************************************)
(* Properties.                                                             *)
(***************************************************************************)

\* The last call of ConvertToJson was made on the table as it is now, with
\* a record type
ExportedNow == Exported.called /\ Exported.at = pc /\ RowStruct # "None"

\* The value of the property called name in a JSON object written as pairs
Property(obj, name) == FieldOf(obj.o, name)

\* The ids of the row objects of an output, in the order written
ExportedIds(out) == [n \in 1..Len(out.rows) |-> Property(out.rows[n], "id").s]

\* The value of the cell of column col in a row object
CellOf(rowObject, col) ==
    LET cells == Property(rowObject, "cells").a
    IN  Property(cells[CHOOSE n \in 1..Len(cells) : Property(cells[n], "columnId").s = col],
                 "value")

\* C1: for StartIndex < rowCount and StartIndex + MaxSize within size_t, the
\* output array holds exactly the rows at positions StartIndex ..
\* min(StartIndex + MaxSize, rowCount) - 1 of the key enumeration, one row
\* object per key, in that order, each carrying the record of its key.
C1_PageRows ==
    (/\ ExportedNow
     /\ Exported.StartIndex < Len(RowMap)
     /\ Exported.StartIndex + Exported.MaxSize < SizeMax)
    => /\ ExportedIds(Exported.out) =
              SubSeq(Keys(RowMap), Exported.StartIndex + 1,
                     Min(Exported.StartIndex + Exported.MaxSize, Len(RowMap)))
       /\ \A n \in 1..Len(Exported.out.rows) :
              CellOf(Exported.out.rows[n], "S") =
                  JStr(RowMap[Exported.StartIndex + n].data.S)

\* C1 witness: a page that starts inside a table of three rows and ends
\* before its last row
C1_Witness ==
    /\ ExportedNow
    /\ Len(RowMap) = 3
    /\ Exported.StartIndex = 1
    /\ Exported.MaxSize = 1
    /\ Len(Exported.out.rows) = 1

\* C2: with a record type and StartIndex >= rowCount (an empty table
\* included) the output is a complete, closed, empty array and the result is
\* true.
C2_EmptyPageClosed ==
    (ExportedNow /\ Exported.StartIndex >= Len(RowMap))
    => /\ Exported.out = [started |-> TRUE, rows |-> <<>>, ended |-> TRUE]
       /\ Exported.ret = TRUE

\* ReadTable has run on a text that parsed as a top-level array with elements
ReadArray ==
    /\ pc = "read"
    /\ RowStruct # "None"
    /\ JSONData.text = "array"
    /\ Len(JSONData.rows) > 0

\* The log without the problem logged for the non-object element of index idx
LogWithoutElement(problems, idx) ==
    SelectSeq(problems, LAMBDA q : ~(q.fmt = "RowNotObject" /\ q.rowIdx = idx))

\* The log of a document read without its element of index idx, with the row
\* indices it names moved to where the elements are in the whole document
Reindexed(problems, idx) ==
    [k \in 1..Len(problems) |->
        IF problems[k].rowIdx >= idx
        THEN [problems[k] EXCEPT !.rowIdx = @ + 1]
        ELSE problems[k]]

\* The problems of the log that name the element of index idx as no object
NotObjectProblems(problems, idx) ==
    {k \in 1..Len(problems) : problems[k].fmt = "RowNotObject" /\ problems[k].rowIdx = idx}

\* C3 as stated: a non-object element i gets exactly one problem and no row,
\* and every other element is processed exactly as if element i were absent:
\* same rows, same field values, same problems; ReadTable returns true.
C3_RowIsolationVerbatim ==
    ReadArray =>
        /\ ReadTableResult = "true"
        /\ \A i \in 1..Len(JSONData.rows) :
              (JSONData.rows[i].type # "Object" /\ Len(JSONData.rows) > 1) =>
                  LET other == ReadTable(Text("array", RemoveAt(JSONData.rows, i)),
                                         PriorRowMap, <<>>)
                  IN  /\ Cardinality(NotObjectProblems(ImportProblems, i - 1)) = 1
                      /\ RowMap = other.rowMap
                      /\ LogWithoutElement(ImportProblems, i - 1) = other.problems

\* C3 amended: as C3, the problems being the same up to the row index they
\* name: a problem that names a later element by its index names the index
\* the element has in this document.
C3_RowIsolation ==
    ReadArray =>
        /\ ReadTableResult = "true"
        /\ \A i \in 1..Len(JSONData.rows) :
              (JSONData.rows[i].type # "Object" /\ Len(JSONData.rows) > 1) =>
                  LET other == ReadTable(Text("array", RemoveAt(JSONData.rows, i)),
                                         PriorRowMap, <<>>)
                  IN  /\ Cardinality(NotObjectProblems(ImportProblems, i - 1)) = 1
                      /\ RowMap = other.rowMap
                      /\ LogWithoutElement(ImportProblems, i - 1) =
                             Reindexed(other.problems, i - 1)

\* C3 witness: the middle element of three is no object and the two around
\* it are imported
C3_Witness ==
    /\ ReadArray
    /\ Len(JSONData.rows) = 3
    /\ JSONData.rows[2].type # "Object"
    /\ Len(RowMap) = 2
    /\ Len(ImportProblems) = 1

\* The row key ReadRow takes from an element that is a JSON object
ElementKey(e) == MakeValidName(GetStringField(e.o, GetKeyFieldName))

\* The elements of the document that are objects with a row key
KeyedElements ==
    {i \in 1..Len(JSONData.rows) :
        JSONData.rows[i].type = "Object" /\ ~IsNone(ElementKey(JSONData.rows[i]))}

\* The elements that carry the same row key as an element before them
DuplicateElements ==
    {k \in KeyedElements :
        \E j \in KeyedElements :
            j < k /\ ElementKey(JSONData.rows[j]) = ElementKey(JSONData.rows[k])}

\* The first and the last element that carry the row key of element k
FirstWithKey(k) ==
    CHOOSE j \in KeyedElements :
        /\ ElementKey(JSONData.rows[j]) = ElementKey(JSONData.rows[k])
        /\ \A m \in KeyedElements :
              ElementKey(JSONData.rows[m]) = ElementKey(JSONData.rows[k]) => j <= m

LastWithKey(k) ==
    CHOOSE j \in KeyedElements :
        /\ ElementKey(JSONData.rows[j]) = ElementKey(JSONData.rows[k])
        /\ \A m \in KeyedElements :
              ElementKey(JSONData.rows[m]) = ElementKey(JSONData.rows[k]) => m <= j

\* The positions of the row map that hold the key
RowsWithKey(rowMap, key) == {n \in 1..Len(rowMap) : rowMap[n].key = key}

\* The record in the row map under the key of element k holds the S and the I
\* of element j
HoldsElement(k, j) ==
    LET data == RowOf(RowMap, ElementKey(JSONData.rows[k]))
    IN  /\ data.S = GetStringField(JSONData.rows[j].o, "S")
        /\ data.I = SetIntPropertyValue(FieldOf(JSONData.rows[j].o, "I").n)

\* C4: with duplicates disallowed, a row whose key is already in the row map
\* logs a duplicate-row-name problem, fails, registers nothing and leaves the
\* earlier row's record unchanged; with duplicates allowed the second row
\* with the same key is imported.
C4_DuplicatePolicy ==
    ReadArray =>
        \A k \in DuplicateElements :
            LET key == ElementKey(JSONData.rows[k])
            IN  IF ~bAllowDuplicateRows
                THEN /\ \E q \in Range(ImportProblems) :
                            q.fmt = "DuplicateRowName" /\ q.rowName = key
                     /\ \E q \in Range(ImportProblems) :
                            q.fmt = "FailedToReadRow" /\ q.rowIdx = k - 1
                     /\ Cardinality(RowsWithKey(RowMap, key)) = 1
                     /\ HoldsElement(k, FirstWithKey(k))
                ELSE /\ \A q \in Range(ImportProblems) : q.fmt # "DuplicateRowName"
                     /\ \A q \in Range(ImportProblems) :
                            ~(q.fmt = "FailedToReadRow" /\ q.rowIdx = k - 1)
                     /\ Cardinality(RowsWithKey(RowMap, key)) = 1
                     /\ HoldsElement(k, LastWithKey(k))

\* C4 witness: duplicates disallowed, two rows of key a with different
\* fields; the second is refused and the record of the first is kept
C4_Witness ==
    /\ ReadArray
    /\ ~bAllowDuplicateRows
    /\ JSONData.rows = <<ScalarsRow("a", TRUE, 1, "x"), ScalarsRow("a", FALSE, 5, "y")>>
    /\ Len(RowMap) = 1
    /\ RowMap[1].data.S = "x"
    /\ \E q \in Range(ImportProblems) : q.fmt = "DuplicateRowName"

\* C5 as stated: ReadTable returns false only when the text is empty, the
\* record type is missing or the text does not parse as a top-level array;
\* for every other input, a well-formed array of any length included, it
\* returns true.
C5_FalseOnlyWhenVerbatim ==
    pc = "read" =>
        (ReadTableResult = "false" <=>
            \/ JSONData.text = "empty"
            \/ RowStruct = "None"
            \/ JSONData.text \in {"malformed", "object"})

\* C5 amended: ReadTable returns false only when the text is empty, the
\* record type is missing, the text does not parse as a top-level array or
\* the array it parses as has no element; for every other input it returns
\* true.
C5_FalseOnlyWhen ==
    pc = "read" =>
        (ReadTableResult = "false" <=>
            \/ JSONData.text = "empty"
            \/ RowStruct = "None"
            \/ JSONData.text \in {"malformed", "object"}
            \/ JSONData.text = "array" /\ Len(JSONData.rows) = 0)

\* C5 witness: every element of the document fails and ReadTable returns true
C5_Witness ==
    /\ ReadArray
    /\ Len(JSONData.rows) = 2
    /\ KeyedElements = {}
    /\ RowMap = <<>>
    /\ Len(ImportProblems) >= 2
    /\ ReadTableResult = "true"

\* C6: when ReadTable returns false the row map is what it was before the
\* call; when it returns true every row of the row map was inserted from an
\* element of this document, whatever the table held before.
C6_ClearsAfterChecks ==
    pc = "read" =>
        /\ ReadTableResult = "false" => RowMap = PriorRowMap
        /\ ReadTableResult = "true" =>
              /\ \A n \in 1..Len(RowMap) :
                    \E i \in KeyedElements :
                        /\ ElementKey(JSONData.rows[i]) = RowMap[n].key
                        /\ RowMap[n].data.S = GetStringField(JSONData.rows[i].o, "S")
              /\ RowMap = ReadTable(JSONData, <<>>, <<>>).rowMap

\* C6 witness: a table of three rows is read over; none of its rows is left
C6_Witness ==
    /\ pc = "read"
    /\ Len(PriorRowMap) = 3
    /\ ReadTableResult = "true"
    /\ Len(RowMap) = 2
    /\ \A n \in 1..Len(RowMap) : RowMap[n].key # "c"

\* The JSON type a document gives a field of this kind when it supplies it
\* as the field is represented, an integer within the width of the field
Represents(v, p) ==
    CASE p.kind = "Bool" -> v.type = "Boolean"
      [] p.kind = "Int" -> v.type = "Number" /\ v.n \in IntMin..IntMax
      [] p.kind = "Str" -> v.type = "String"
      [] OTHER -> FALSE

\* The element is a row object with a valid key that supplies every field
SuppliesEveryField(e) ==
    /\ e.type = "Object"
    /\ ~IsNone(ElementKey(e))
    /\ \A p \in Range(StructFields(RowStruct)) :
            HasField(e.o, p.name) /\ Represents(FieldOf(e.o, p.name), p)

\* The document is an array of one or more rows with distinct valid keys
\* that supply every field
RoundTripDocument ==
    /\ JSONData.text = "array"
    /\ Len(JSONData.rows) >= 1
    /\ \A i \in 1..Len(JSONData.rows) : SuppliesEveryField(JSONData.rows[i])
    /\ \A i, j \in 1..Len(JSONData.rows) :
            ElementKey(JSONData.rows[i]) = ElementKey(JSONData.rows[j]) => i = j

\* The table was imported, then exported whole
ExportedWhole ==
    /\ pc = "read"
    /\ ExportedNow
    /\ Exported.StartIndex = 0
    /\ Exported.MaxSize = SizeMax - 1

\* The (row key, column, value) triples of the document
DocumentTriples ==
    {<<ElementKey(JSONData.rows[i]), p.name, FieldOf(JSONData.rows[i].o, p.name)>> :
        i \in 1..Len(JSONData.rows), p \in Range(StructFields(RowStruct))}

\* The (row key, column, value) triples of the cells of the output
CellTriples(rowObject) ==
    {<<Property(rowObject, "id").s, Property(cell, "columnId").s, Property(cell, "value")>> :
        cell \in Range(Property(rowObject, "cells").a)}

ExportedTriples == UNION {CellTriples(Exported.out.rows[n]) : n \in 1..Len(Exported.out.rows)}

\* The record type has a field exported under the name _path
HasPathField == \E p \in Range(StructFields(RowStruct)) : GetPropertyExportName(p) = "_path"

\* C9 as stated: for a record type of arity-1 boolean, integer and string
\* fields and a document of rows with distinct valid keys that supply every
\* field, the export of the imported table has the triples of the document.
C9_RoundTripVerbatim ==
    (RoundTripDocument /\ ExportedWhole) => ExportedTriples = DocumentTriples

\* C9 amended: the same for a record type none of whose fields is exported
\* under the name _path.
C9_RoundTrip ==
    (RoundTripDocument /\ ExportedWhole /\ ~HasPathField)
    => ExportedTriples = DocumentTriples

\* C9 witness: a document of two rows read over a table of three rows, then
\* exported whole
C9_Witness ==
    /\ RoundTripDocument
    /\ ExportedWhole
    /\ ~HasPathField
    /\ Len(JSONData.rows) = 2
    /\ Len(PriorRowMap) = 3
    /\ Cardinality(ExportedTriples) = 6

\* The names of the properties of a row object, in the order written
PropertyNames(rowObject) == [n \in 1..Len(rowObject.o) |-> rowObject.o[n][1]]

\* C10: every exported row object carries exactly one path property, written
\* after the cells array, equal to the string value of the field exported as
\* _path when the record type has one and empty otherwise; no cell has
\* _path as its columnId.
C10_PathProperty ==
    ExportedNow =>
        \A n \in 1..Len(Exported.out.rows) :
            LET rowObject == Exported.out.rows[n]
                names == PropertyNames(rowObject)
                data == RowMap[Exported.StartIndex + n].data
            IN  /\ Cardinality({m \in 1..Len(names) : names[m] = "path"}) = 1
                /\ \E c, m \in 1..Len(names) :
                        names[c] = "cells" /\ names[m] = "path" /\ c < m
                /\ Property(rowObject, "path") =
                        JStr(IF HasPathField THEN data._path ELSE "")
                /\ \A cell \in Range(Property(rowObject, "cells").a) :
                        Property(cell, "columnId").s # "_path"

\* C10 witness: a row whose _path field holds a path is exported
C10_Witness ==
    /\ ExportedNow
    /\ HasPathField
    /\ pc = "read"
    /\ \E n \in 1..Len(Exported.out.rows) :
            /\ Property(Exported.out.rows[n], "path") = JStr("p")
            /\ Len(Property(Exported.out.rows[n], "cells").a) = 2

\* The table of containers has been read: its one row is registered
ReadContainers == pc = "read" /\ RowStruct = "Containers" /\ Find(RowMap, "r")

\* The container field the document supplies, its value and the record read
DocField ==
    CHOOSE p \in ContainerFields : HasField(JSONData.rows[1].o, p.name)

DocValue == FieldOf(JSONData.rows[1].o, DocField.name)

RowRecord == RowOf(RowMap, "r")

\* A pair of a JSON object decodes into a map of integer keys: its name is
\* the text of an integer and its value is of the kind of the map's values
PairDecodes(pair, p) ==
    /\ pair[1] \in NumericStrings
    /\ p.inner = "Int"
    /\ pair[2].type = "Number"

\* The position of the first pair that does not decode, or one past the last
FirstFailing(pairs, p) ==
    IF \A i \in 1..Len(pairs) : PairDecodes(pairs[i], p)
    THEN Len(pairs) + 1
    ELSE CHOOSE i \in 1..Len(pairs) :
            /\ ~PairDecodes(pairs[i], p)
            /\ \A j \in 1..(i - 1) : PairDecodes(pairs[j], p)

\* The entries of the pairs before position n
EntriesBefore(pairs, n) ==
    [i \in 1..(n - 1) |->
        [k |-> IF pairs[i][1] = "1" THEN 1 ELSE 2,
         v |-> SetIntPropertyValue(pairs[i][2].n)]]

\* The problems logged about assigning a key of the column
KeyProblems(col) ==
    {n \in 1..Len(ImportProblems) :
        ImportProblems[n].fmt = "AssignKey" /\ ImportProblems[n].col = col}

\* C7: the pairs of a map field are processed in document order; at the
\* first pair whose key coercion or value decode fails the field returns
\* failure, and the map holds exactly the entries of the pairs before it.
C7_MapStopsAtFirstFailure ==
    (ReadContainers /\ DocField.kind = "Map" /\ DocValue.type = "Object") =>
        LET pairs == DocValue.o
            failing == FirstFailing(pairs, DocField)
        IN  /\ RowRecord[DocField.name].pairs = EntriesBefore(pairs, failing)
            /\ ReadStructEntry(DocValue, "r", DocField.name, DocField,
                               DefaultValue(DocField), <<>>).ret
                    = (failing > Len(pairs))
            /\ \A n \in KeyProblems(DocField.name) :
                    /\ failing <= Len(pairs)
                    /\ ImportProblems[n].text = pairs[failing][1]

\* C7 witness: the second of three pairs fails and the map holds the first
C7_Witness ==
    /\ ReadContainers
    /\ DocField.name = "M"
    /\ DocValue.type = "Object"
    /\ Len(DocValue.o) = 3
    /\ FirstFailing(DocValue.o, DocField) = 2
    /\ PairDecodes(DocValue.o[3], DocField)
    /\ Len(RowRecord.M.pairs) = 1

\* ReadContainerEntry on an entry of a nested container kind returns failure
\* and leaves the slot and the log as they were
RejectsNesting ==
    \A kind \in {"Array", "Set", "Map"}, v \in EntryValues \cup {DocValue} :
        LET slot == DefaultValue(Prop("e", kind))
        IN  ReadContainerEntry(v, "r", DocField.name, 0, Prop("e", kind), slot,
                               ImportProblems)
                = Ret(FALSE, slot, ImportProblems)

\* The entries of an array, a set or a static array of a nested container
\* kind are all visited and left at their default, and the field after the
\* container is decoded
NestedEntriesConfined ==
    /\ (DocField.name = "N" /\ DocValue.type = "Array") =>
            RowRecord.N = [n \in 1..Len(DocValue.a) |-> <<>>]
    /\ (DocField.name = "U" /\ DocValue.type = "Array") =>
            RowRecord.U.elems =
                [n \in 1..Len(DocValue.a) |-> DefaultValue(InnerProp(DocField))]
    /\ (DocField.name = "G" /\ DocValue.type = "Array") =>
            RowRecord.G = DefaultSlot(DocField)
    /\ (DocField.name \in {"N", "U", "G"} /\ DocValue.type = "Array") =>
            RowRecord.Y = 1 /\ RowRecord.Z = 2
    /\ (DocField.name = "P" /\ DocValue.type = "Object") =>
            RowRecord.Y = 1 /\ RowRecord.Z = 2

\* C8 as stated: ReadContainerEntry fails, writing nothing, on an entry of
\* kind array, set or map; the remaining entries of the same container,
\* those of a map included, and the sibling fields are still decoded.
C8_NestingConfinedVerbatim ==
    ReadContainers =>
        /\ RejectsNesting
        /\ NestedEntriesConfined
        /\ (DocField.name = "P" /\ DocValue.type = "Object") =>
              \A i \in 1..Len(DocValue.o) :
                  DocValue.o[i][1] \notin NumericStrings =>
                      \E n \in KeyProblems("P") :
                          ImportProblems[n].text = DocValue.o[i][1]

\* C8 amended: the remaining entries of an array, a set or a static array
\* and the sibling fields are still decoded; in a map the rejected value
\* ends the field: the entry is removed and no later pair is decoded.
C8_NestingConfined ==
    ReadContainers =>
        /\ RejectsNesting
        /\ NestedEntriesConfined
        /\ (DocField.name = "P" /\ DocValue.type = "Object") =>
              /\ RowRecord.P.pairs = <<>>
              /\ \A i \in 2..Len(DocValue.o) :
                    \A n \in KeyProblems("P") :
                        ImportProblems[n].text # DocValue.o[i][1]

\* C8 witness: an array of three arrays is read into three empty entries and
\* the field after it is decoded
C8_Witness ==
    /\ ReadContainers
    /\ DocField.name = "N"
    /\ DocValue.type = "Array"
    /\ Len(DocValue.a) = 3
    /\ DocValue.a[1].type = "Array"
    /\ Len(RowRecord.N) = 3
    /\ RowRecord.Z = 2

\* The name of the key field as configured on the table
ConfiguredKeyField == IF ImportKeyField = "" THEN "Name" ELSE ImportKeyField

\* The row object holds no string under the key field, or an empty one
LacksKey(e) ==
    \/ ~HasField(e.o, ConfiguredKeyField)
    \/ FieldOf(e.o, ConfiguredKeyField) = JStr("")

\* The problems of a format logged about the element of index idx
IndexProblems(fmt, idx) ==
    {n \in 1..Len(ImportProblems) :
        ImportProblems[n].fmt = fmt /\ ImportProblems[n].rowIdx = idx}

\* The rows of the table have been read
ReadRows == pc = "read" /\ RowStruct = "Tagged"

\* C11: a row object with no value under the configured key field, or with
\* one that makes the name None, logs one missing-key-field problem naming
\* the key field and fails with the row map unchanged: no record is
\* registered for it.
C11_MissingKey ==
    ReadRows =>
        \A i \in 1..Len(JSONData.rows) :
            LacksKey(JSONData.rows[i]) =>
                /\ Cardinality(IndexProblems("MissingKeyField", i - 1)) = 1
                /\ \A n \in IndexProblems("MissingKeyField", i - 1) :
                        ImportProblems[n].text = ConfiguredKeyField
                /\ Cardinality(IndexProblems("FailedToReadRow", i - 1)) = 1
                /\ Len(RowMap) = i - 1
                /\ \A n \in 1..Len(RowMap) : RowMap[n].key \notin {"None", ""}
                /\ ReadRow(JSONData.rows[i].o, i - 1, RowMap, ImportProblems).rowMap = RowMap
                /\ ~ReadRow(JSONData.rows[i].o, i - 1, RowMap, ImportProblems).ret

\* C11 witness: under the key field Id, a row that holds only a Name follows
\* a complete row and the table holds the complete row alone
C11_Witness ==
    /\ ReadRows
    /\ ImportKeyField = "Id"
    /\ Len(JSONData.rows) = 2
    /\ HasField(JSONData.rows[2].o, "Name")
    /\ LacksKey(JSONData.rows[2])
    /\ Keys(RowMap) = <<"g">>
    /\ IndexProblems("MissingKeyField", 1) # {}

\* The declared fields none of whose import names the row object holds
MissingFields(e) ==
    {p \in Range(StructFields(RowStruct)) :
        \A name \in Range(GetPropertyImportNames(p)) : ~HasField(e.o, name)}

\* The problems logged about a missing entry of a column of a row
MissingEntryLogged(rowName, col) ==
    {n \in 1..Len(ImportProblems) :
        /\ ImportProblems[n].fmt = "MissingEntry"
        /\ ImportProblems[n].rowName = rowName
        /\ ImportProblems[n].col = col}

\* C15: a declared field none of whose import names is a key of the row
\* object keeps its slot untouched, the fields after it are still read and
\* the row does not fail; one problem is logged when the field is not
\* optional and the table does not ignore missing fields, none otherwise.
C15_MissingField ==
    ReadRows =>
        \A i \in 1..Len(JSONData.rows) :
            ~LacksKey(JSONData.rows[i]) =>
                LET e == JSONData.rows[i]
                    key == FieldOf(e.o, ConfiguredKeyField).s
                IN  /\ Find(RowMap, key)
                    /\ IndexProblems("FailedToReadRow", i - 1) = {}
                    /\ RowOf(RowMap, key).Z = FieldOf(e.o, "Z").n
                    /\ \A p \in Range(StructFields(RowStruct)) :
                          IF p \in MissingFields(e)
                          THEN /\ RowOf(RowMap, key)[p.name] = DefaultValue(p)
                               /\ Cardinality(MissingEntryLogged(key, p.name)) =
                                      IF ~p.optional /\ ~bIgnoreMissingFields THEN 1 ELSE 0
                          ELSE MissingEntryLogged(key, p.name) = {}

\* C15 witness: a row without its optional field and without its aliased
\* field is registered with both at their defaults and its last field read
C15_Witness ==
    /\ ReadRows
    /\ ~bIgnoreMissingFields
    /\ Len(JSONData.rows) = 1
    /\ Len(RowMap) = 1
    /\ Cardinality(MissingFields(JSONData.rows[1])) = 3
    /\ MissingEntryLogged(RowMap[1].key, "I") = {}
    /\ MissingEntryLogged(RowMap[1].key, "S") # {}
    /\ RowMap[1].data.Z = 2

\* The table of containers has been read
ReadContainerRows == pc = "read" /\ RowStruct = "Containers"

\* The first row gives a field of static arity above one a value that is no
\* array
StaticArrayNotArray == DocField.dim > 1 /\ DocValue.type # "Array"

\* The first row gives an array or set field a value that is no array, or a
\* map field a value that is no object
ContainerWrongShape ==
    /\ DocField.dim = 1
    /\ \/ DocField.kind \in {"Array", "Set"} /\ DocValue.type # "Array"
       \/ DocField.kind = "Map" /\ DocValue.type # "Object"

\* The problems of a format logged about a column of a row
ColumnProblems(fmt, rowName, col) ==
    {n \in 1..Len(ImportProblems) :
        /\ ImportProblems[n].fmt = fmt
        /\ ImportProblems[n].rowName = rowName
        /\ ImportProblems[n].col = col}

\* C12: the record is registered before its fields are populated and stays
\* registered: when the struct walker fails, the row is in the row map with
\* the fields populated before the failure and defaults for the rest, and
\* ReadTable logs a failed-to-read-row problem for it.
C12_RegisteredThenPopulated ==
    ReadContainerRows =>
        /\ Find(RowMap, "r")
        /\ RowRecord.Y = 1
        /\ StaticArrayNotArray =>
              /\ RowRecord[DocField.name] = DefaultSlot(DocField)
              /\ \A p \in Range(StructFields(RowStruct)) :
                    p.name \notin {"Y", DocField.name} =>
                        RowRecord[p.name] = DefaultSlot(p)
              /\ Cardinality(IndexProblems("FailedToReadRow", 0)) = 1

\* C12 witness: the walker fails on a static array given a string; the row is
\* registered with its first field read and its last at the default
C12_Witness ==
    /\ ReadContainerRows
    /\ StaticArrayNotArray
    /\ Find(RowMap, "r")
    /\ RowRecord.Y = 1
    /\ RowRecord.Z = 0
    /\ IndexProblems("FailedToReadRow", 0) # {}

\* C13 as stated: a static array field whose value is no array, an array or
\* set field whose value is no array, or a map field whose value is no
\* object makes ReadTable stop, import no later row and report failure.
C13_StructuralAbortsVerbatim ==
    (ReadContainerRows /\ (StaticArrayNotArray \/ ContainerWrongShape)) =>
        /\ ReadTableResult = "false"
        /\ ~Find(RowMap, "s")

\* C13 amended: none of these stops ReadTable: it logs an incorrect-type
\* problem for the field, imports the later rows and returns true; a static
\* array field whose value is no array fails its row alone, whose later
\* fields are not read; a container field of the wrong shape fails that
\* field alone.
C13_StructuralConfined ==
    (ReadContainerRows /\ (StaticArrayNotArray \/ ContainerWrongShape)) =>
        /\ ReadTableResult = "true"
        /\ Find(RowMap, "s")
        /\ RowOf(RowMap, "s").Y = 1 /\ RowOf(RowMap, "s").Z = 2
        /\ IndexProblems("FailedToReadRow", 1) = {}
        /\ ColumnProblems("IncorrectType", "r", DocField.name) # {}
        /\ StaticArrayNotArray =>
              /\ Cardinality(IndexProblems("FailedToReadRow", 0)) = 1
              /\ RowRecord.Z = 0
        /\ ContainerWrongShape =>
              /\ IndexProblems("FailedToReadRow", 0) = {}
              /\ RowRecord.Z = 2

\* C13 witness: the first row gives a static array a string; the second row
\* is imported and ReadTable returns true
C13_Witness ==
    /\ ReadContainerRows
    /\ StaticArrayNotArray
    /\ ReadTableResult = "true"
    /\ Keys(RowMap) = <<"r", "s">>
    /\ RowOf(RowMap, "s").Z = 2

\* The position of a column among the declared fields of the record type
FieldIndex(col) ==
    CHOOSE j \in 1..Len(StructFields(RowStruct)) : StructFields(RowStruct)[j].name = col

FieldNames == {p.name : p \in Range(StructFields(RowStruct))}

\* The problems logged about the declared fields of the first row
FieldProblems ==
    {n \in 1..Len(ImportProblems) :
        ImportProblems[n].rowName = "r" /\ ImportProblems[n].col \in FieldNames}

\* C16: ReadStruct visits the fields in declaration order and returns true
\* unless a field of static arity above one is given a value that is no
\* array, which makes it return false at once with the later fields
\* unprocessed; a failed decode of an arity-1 field, a nested struct whose
\* own walk failed included, neither fails the row nor skips later fields.
C16_OnlyStaticArrayFails ==
    ReadContainers =>
        /\ (IndexProblems("FailedToReadRow", 0) # {}) = StaticArrayNotArray
        /\ ReadStruct(JSONData.rows[1].o, RowStruct, "r", DefaultStruct(RowStruct), <<>>).ret
               = ~StaticArrayNotArray
        /\ RowRecord.Y = 1
        /\ RowRecord.Z = IF StaticArrayNotArray THEN 0 ELSE 2
        /\ StaticArrayNotArray =>
              \A n \in FieldProblems :
                  FieldIndex(ImportProblems[n].col) <= FieldIndex(DocField.name)
        /\ \A m, n \in FieldProblems :
              m < n => FieldIndex(ImportProblems[m].col) <= FieldIndex(ImportProblems[n].col)

\* C16 witness: a nested struct whose own walk failed on its static array;
\* the row does not fail and the field after the struct is read
C16_Witness ==
    /\ ReadContainers
    /\ DocField.name = "W"
    /\ DocValue.type = "Object"
    /\ FieldOf(DocValue.o, "F2").type = "String"
    /\ RowRecord.W.X = 0
    /\ RowRecord.Z = 2
    /\ IndexProblems("FailedToReadRow", 0) = {}

\* The problems logged about an entry of a column of the first row
EntryProblems(col, idx) ==
    {n \in 1..Len(ImportProblems) :
        /\ ImportProblems[n].rowName = "r"
        /\ ImportProblems[n].col = col
        /\ ImportProblems[n].entry = idx}

\* C19: a static array of arity N given an array of L values logs one size
\* problem exactly when L differs from N, decodes the indices below both N
\* and L each into its own slot, leaves the slots from L on at their
\* default, goes on after an index that fails and does not fail the row.
C19_StaticArray ==
    (ReadContainers /\ DocField.name = "F" /\ DocValue.type = "Array") =>
        LET N == DocField.dim
            L == Len(DocValue.a)
        IN  /\ Cardinality(ColumnProblems("StaticArraySize", "r", "F")) =
                   IF L # N THEN 1 ELSE 0
            /\ \A i \in 1..N :
                  IF i <= L /\ DocValue.a[i].type = "Number"
                  THEN /\ RowRecord.F[i] = SetIntPropertyValue(DocValue.a[i].n)
                       /\ EntryProblems("F", i - 1) = {}
                  ELSE IF i <= L
                  THEN /\ RowRecord.F[i] = 0
                       /\ Cardinality(EntryProblems("F", i - 1)) = 1
                  ELSE /\ RowRecord.F[i] = 0
                       /\ EntryProblems("F", i - 1) = {}
            /\ \A i \in (N + 1)..L : EntryProblems("F", i - 1) = {}
            /\ IndexProblems("FailedToReadRow", 0) = {}
            /\ RowRecord.Z = 2

\* C19 witness: three values for two slots, the first of which fails
C19_Witness ==
    /\ ReadContainers
    /\ DocField.name = "F"
    /\ DocValue.type = "Array"
    /\ Len(DocValue.a) = 3
    /\ DocValue.a[1].type = "String"
    /\ RowRecord.F = <<0, 1>>
    /\ ColumnProblems("StaticArraySize", "r", "F") # {}

\* The first row gives an array or set field an array, a map field an object
RightShape ==
    /\ DocField.dim = 1
    /\ \/ DocField.kind \in {"Array", "Set"} /\ DocValue.type = "Array"
       \/ DocField.kind = "Map" /\ DocValue.type = "Object"

\* The problems logged about the first row, the missing entries aside, in
\* the order they were logged
RowProblemSeq ==
    SelectSeq(ImportProblems, LAMBDA q : q.rowName = "r" /\ q.fmt # "MissingEntry")

\* What ReadContainerEntry returns for the i-th entry of the array the
\* first row gives its array or set field
EntryOutcome(i) ==
    ReadContainerEntry(DocValue.a[i], "r", DocField.name, i - 1, InnerProp(DocField),
                       DefaultValue(InnerProp(DocField)), <<>>)

\* C14: every recoverable error contributes exactly one problem: here, every
\* failing return of ReadContainerEntry on an entry of an array or a set
\* appends one problem, and the log holds one problem about the field for
\* each failing entry.
C14_OneProblemPerError ==
    (ReadContainers /\ RightShape /\ DocField.kind \in {"Array", "Set"}) =>
        /\ \A i \in 1..Len(DocValue.a) :
              ~EntryOutcome(i).ret => Len(EntryOutcome(i).problems) = 1
        /\ Len(RowProblemSeq) =
              Cardinality({i \in 1..Len(DocValue.a) : ~EntryOutcome(i).ret})

\* C17: every problem ReadContainerEntry itself appends carries the index of
\* the entry within its container: here, every problem logged about an
\* array or set field given an array, or a static array given an array
\* (its size problem aside), names an entry.
C17_EntryIndexNamed ==
    (/\ ReadContainers
     /\ DocValue.type = "Array"
     /\ DocField.dim > 1 \/ DocField.kind \in {"Array", "Set"}) =>
        \A n \in 1..Len(ImportProblems) :
            (/\ ImportProblems[n].rowName = "r"
             /\ ImportProblems[n].col = DocField.name
             /\ ImportProblems[n].fmt # "StaticArraySize")
                => ImportProblems[n].entry >= 0

\* The outcome of the first ReadStructEntry on the field of the first row
FirstAttempt ==
    ReadStructEntry(DocValue, "r", DocField.name, DocField, DefaultSlot(DocField), <<>>)

\* ReadStruct makes a second attempt on the field of the first row
SecondAttempted ==
    /\ bArbitraryStruct
    /\ ~FirstAttempt.ret
    /\ DocValue.type = "String"
    /\ EmbeddedJson(DocValue.s).ok

\* The outcome of the second ReadStructEntry, on the re-parsed value
SecondAttempt ==
    ReadStructEntry(EmbeddedJson(DocValue.s).value, "r", DocField.name, DocField,
                    FirstAttempt.data, FirstAttempt.problems)

\* C18 as stated: at most two attempts, the second only after a failed first
\* attempt on a string that parses, on the re-parsed value; a failure of the
\* second attempt adds nothing to the log, leaves the field at its default
\* and does not fail the row.
C18_SecondFailureAbsorbed ==
    (ReadContainers /\ bArbitraryStruct /\ DocField.dim = 1) =>
        /\ ~SecondAttempted =>
              /\ RowRecord[DocField.name] = FirstAttempt.data
              /\ RowProblemSeq = FirstAttempt.problems
        /\ (SecondAttempted /\ SecondAttempt.ret) =>
              RowRecord[DocField.name] = SecondAttempt.data
        /\ (SecondAttempted /\ ~SecondAttempt.ret) =>
              /\ RowProblemSeq = FirstAttempt.problems
              /\ RowRecord[DocField.name] = DefaultSlot(DocField)
        /\ IndexProblems("FailedToReadRow", 0) = {}
        /\ RowRecord.Z = 2

\* C18 (amended): at most two attempts, the second only after a failed first
\* attempt on a string that parses, on the re-parsed value; the problems of
\* the second attempt are logged after those of the first, which stay in
\* the log, the field is left as the second attempt left it, and the row
\* does not fail.
C18_SecondAttemptLogged ==
    (ReadContainers /\ bArbitraryStruct /\ DocField.dim = 1) =>
        /\ ~SecondAttempted =>
              /\ RowRecord[DocField.name] = FirstAttempt.data
              /\ RowProblemSeq = FirstAttempt.problems
        /\ SecondAttempted =>
              /\ RowRecord[DocField.name] = SecondAttempt.data
              /\ RowProblemSeq = SecondAttempt.problems
              /\ Len(FirstAttempt.problems) >= 1
              /\ SubSeq(RowProblemSeq, 1, Len(FirstAttempt.problems)) = FirstAttempt.problems
        /\ IndexProblems("FailedToReadRow", 0) = {}
        /\ RowRecord.Z = 2

\* C18 witness: an array field given the string "1": both attempts fail and
\* each logs its own problem
C18_Witness ==
    /\ ReadContainers
    /\ bArbitraryStruct
    /\ DocField.name = "A"
    /\ DocValue = JStr("1")
    /\ Len(RowProblemSeq) = 2
    /\ RowProblemSeq[1].got = "String"
    /\ RowProblemSeq[2].got = "Number"
    /\ RowRecord.A = <<>>
    /\ RowRecord.Z = 2

\* The entries the set or map field of the first row holds after the read
HeldEntries ==
    IF DocField.kind = "Set"
    THEN RowRecord[DocField.name].elems
    ELSE RowRecord[DocField.name].pairs

\* C20: whenever ReadStructEntry returns after adding at least one entry to
\* a set or a map, the container has been rehashed after the last insertion
\* or removal: it is never left holding entries that still need a rehash.
C20_RehashedOnEveryPath ==
    (/\ ReadContainers
     /\ RightShape
     /\ DocField.kind \in {"Set", "Map"}) =>
        (HeldEntries # <<>> => ~RowRecord[DocField.name].needsRehash)

====
